---- MODULE Spec2Model ----
(***************************************************************************)
(* Model of scripts/test-build-registry.ts: the version bumper             *)
(* (bumpSemver), the registry diff evaluator (calculateNextVersion) and    *)
(* the test runner (test / summary / process.exit).                        *)
(*                                                                         *)
(* A JavaScript string is a sequence of one-character strings, so that     *)
(* "1.2.3" is <<"1", ".", "2", ".", "3">>; "\n" stands for the line         *)
(* terminators of the regular expression engine.                           *)
(***************************************************************************)
EXTENDS Integers, Sequences, FiniteSets

VARIABLES
    v, part, ret, called,
    liveRegistry, localTemplateIds, bumpPart, result, before, op, round,
    passed, failed, next, counted, body, summary, exitCode

bumpVars   == <<v, part, ret, called>>
evalVars   == <<liveRegistry, localTemplateIds, bumpPart, result, before, op, round>>
runnerVars == <<passed, failed, next, counted, body, summary, exitCode>>
vars       == <<bumpVars, evalVars, runnerVars>>

-----------------------------------------------------------------------------
(* Bounds of the model. *)

MaxLen == 4
MaxDigits == 2
MaxSuffix == 2
MaxTemplates == 2
MaxLocal == 3
MaxRoundLocal == 2
MaxRounds == 3

-----------------------------------------------------------------------------
(* Strings. *)

Str(s) == s

Digits == {"0", "1", "2", "3", "4", "5", "6", "7", "8", "9"}

IsDigit(c) == c \in Digits

LineTerminators == {"\n"}

DigitVal(c) ==
    CASE c = "0" -> 0 [] c = "1" -> 1 [] c = "2" -> 2 [] c = "3" -> 3
      [] c = "4" -> 4 [] c = "5" -> 5 [] c = "6" -> 6 [] c = "7" -> 7
      [] c = "8" -> 8 [] c = "9" -> 9

DigitChar(d) ==
    CASE d = 0 -> "0" [] d = 1 -> "1" [] d = 2 -> "2" [] d = 3 -> "3"
      [] d = 4 -> "4" [] d = 5 -> "5" [] d = 6 -> "6" [] d = 7 -> "7"
      [] d = 8 -> "8" [] d = 9 -> "9"

RECURSIVE parseInt(_)
parseInt(n) ==
    IF n = <<>> THEN 0
    ELSE 10 * parseInt(SubSeq(n, 1, Len(n) - 1)) + DigitVal(n[Len(n)])

RECURSIVE NumberToString(_)
NumberToString(n) ==
    IF n < 10 THEN <<DigitChar(n)>>
    ELSE NumberToString(n \div 10) \o <<DigitChar(n % 10)>>

Format(major, minor, patch) ==
    NumberToString(major) \o <<".">> \o NumberToString(minor) \o <<".">> \o NumberToString(patch)

FALLBACK == <<"1", ".", "0", ".", "0">>

-----------------------------------------------------------------------------
(* bumpSemver *)

RECURSIVE DigitRun(_, _)
DigitRun(s, i) ==
    IF i <= Len(s) /\ IsDigit(s[i]) THEN 1 + DigitRun(s, i + 1) ELSE 0

NoMatch == [ok |-> FALSE, g |-> <<>>]

SemverMatch(s) ==
    LET n1 == DigitRun(s, 1)
        d1 == 1 + n1
        n2 == DigitRun(s, d1 + 1)
        d2 == d1 + 1 + n2
        n3 == DigitRun(s, d2 + 1)
        e  == d2 + 1 + n3
        rest == SubSeq(s, e, Len(s))
    IN  IF /\ n1 > 0
           /\ d1 <= Len(s) /\ s[d1] = "."
           /\ n2 > 0
           /\ d2 <= Len(s) /\ s[d2] = "."
           /\ n3 > 0
           /\ \/ rest = <<>>
              \/ /\ rest[1] \in {".", "-"}
                 /\ \A k \in 2..Len(rest) : rest[k] \notin LineTerminators
        THEN [ok |-> TRUE,
              g  |-> <<SubSeq(s, 1, n1), SubSeq(s, d1 + 1, d1 + n2),
                       SubSeq(s, d2 + 1, d2 + n3)>>]
        ELSE NoMatch

BumpParts == {"major", "minor", "patch"}

DefaultPart(p) == IF p = "undefined" THEN "minor" ELSE p

(* Variants of bumpSemver with a plausible slip each. *)
bumpSemverKeepsPatch(ver, p) ==
    LET m == SemverMatch(Str(ver))
        major == parseInt(m.g[1])
        minor == parseInt(m.g[2])
        patch == parseInt(m.g[3])
    IN  IF ~m.ok THEN FALLBACK
        ELSE IF DefaultPart(p) = "major" THEN Format(major + 1, 0, 0)
        ELSE IF DefaultPart(p) = "patch" THEN Format(major, minor, patch + 1)
        ELSE Format(major, minor + 1, patch)

bumpSemverKeepsSuffix(ver, p) ==
    LET m == SemverMatch(Str(ver))
        major == parseInt(m.g[1])
        minor == parseInt(m.g[2])
        patch == parseInt(m.g[3])
        suffix == SubSeq(ver, Len(m.g[1]) + Len(m.g[2]) + Len(m.g[3]) + 3, Len(ver))
    IN  IF ~m.ok THEN FALLBACK
        ELSE IF DefaultPart(p) = "major" THEN Format(major + 1, 0, 0) \o suffix
        ELSE IF DefaultPart(p) = "patch" THEN Format(major, minor, patch + 1) \o suffix
        ELSE Format(major, minor + 1, 0) \o suffix

bumpSemverPatchResetsMinor(ver, p) ==
    LET m == SemverMatch(Str(ver))
        major == parseInt(m.g[1])
        minor == parseInt(m.g[2])
        patch == parseInt(m.g[3])
    IN  IF ~m.ok THEN FALLBACK
        ELSE IF DefaultPart(p) = "major" THEN Format(major + 1, 0, 0)
        ELSE IF DefaultPart(p) = "patch" THEN Format(major, 0, patch + 1)
        ELSE Format(major, minor + 1, 0)

bumpSemverEchoesInvalid(ver, p) ==
    LET m == SemverMatch(Str(ver))
        major == parseInt(m.g[1])
        minor == parseInt(m.g[2])
        patch == parseInt(m.g[3])
    IN  IF ~m.ok THEN ver
        ELSE IF DefaultPart(p) = "major" THEN Format(major + 1, 0, 0)
        ELSE IF DefaultPart(p) = "patch" THEN Format(major, minor, patch + 1)
        ELSE Format(major, minor + 1, 0)

bumpSemver(ver, p) ==
    LET m == SemverMatch(Str(ver))
        major == parseInt(m.g[1])
        minor == parseInt(m.g[2])
        patch == parseInt(m.g[3])
    IN  IF ~m.ok THEN FALLBACK
        ELSE IF DefaultPart(p) = "major" THEN Format(major + 1, 0, 0)
        ELSE IF DefaultPart(p) = "patch" THEN Format(major, minor, patch + 1)
        ELSE Format(major, minor + 1, 0)

-----------------------------------------------------------------------------
(* Inputs of the bumpSemver specification. *)

Char == {"0", "9", ".", "-", "a", "\n"}
SufChar == {".", "-", "a", "\n"}
NumChar == {"0", "9"}

RECURSIVE StringsOfLen(_, _)
StringsOfLen(A, n) ==
    IF n = 0 THEN {<<>>}
    ELSE {<<c>> \o s : c \in A, s \in StringsOfLen(A, n - 1)}

Strings(A, lo, hi) == UNION {StringsOfLen(A, n) : n \in lo..hi}

Numerals == Strings(NumChar, 1, MaxDigits)

Triples == {a \o <<".">> \o b \o <<".">> \o c : a, b, c \in Numerals}

VersionInputs ==
    Strings(Char, 0, MaxLen)
      \cup {t \o s : t \in Triples, s \in Strings(SufChar, 0, MaxSuffix)}

Idle == <<>>

EvalIdle ==
    /\ liveRegistry = Idle /\ localTemplateIds = Idle /\ bumpPart = "undefined"
    /\ result = Idle /\ before = Idle /\ op = "none" /\ round = 0

RunnerIdle ==
    /\ passed = 0 /\ failed = 0 /\ next = 0 /\ counted = Idle /\ body = Idle
    /\ summary = Idle /\ exitCode = -1

InitBump ==
    /\ v \in VersionInputs
    /\ part = "undefined"
    /\ ret = Idle
    /\ called = FALSE
    /\ EvalIdle
    /\ RunnerIdle

CallBump ==
    /\ ~called
    /\ \E p \in BumpParts \cup {"undefined"} :
          /\ part' = p
          /\ ret' = bumpSemver(v, p)
    /\ called' = TRUE
    /\ UNCHANGED <<v, evalVars, runnerVars>>

NextBump == CallBump

SpecBump == InitBump /\ [][NextBump]_vars

-----------------------------------------------------------------------------
(* calculateNextVersion.  A RegistryFile is a record of a version string   *)
(* and an array of {id} records; null is the absent registry.  Template    *)
(* identifiers are opaque, so they are plain TLA+ strings.                 *)

null == [isNull |-> TRUE, version |-> <<>>, templates |-> <<>>]

RegistryFile(ver, tpls) == [isNull |-> FALSE, version |-> ver, templates |-> tpls]

DEFAULT_BASE == <<"1", ".", "0", ".", "0">>

Range(f) == {f[x] : x \in DOMAIN f}

prevIdsOf(reg) ==
    LET templates == IF reg.isNull THEN <<>> ELSE reg.templates
    IN  {templates[x].id : x \in DOMAIN templates}

RECURSIVE Filter(_, _)
Filter(ids, prevIds) ==
    IF ids = <<>> THEN <<>>
    ELSE IF Head(ids) \notin prevIds
         THEN <<Head(ids)>> \o Filter(Tail(ids), prevIds)
         ELSE Filter(Tail(ids), prevIds)

RECURSIVE FilterOnce(_, _)
FilterOnce(ids, prevIds) ==
    IF ids = <<>> THEN <<>>
    ELSE IF Head(ids) \notin prevIds
         THEN <<Head(ids)>> \o FilterOnce(Tail(ids), prevIds \cup {Head(ids)})
         ELSE FilterOnce(Tail(ids), prevIds)

RECURSIVE SetToSeq(_)
SetToSeq(S) ==
    IF S = {} THEN <<>>
    ELSE LET x == CHOOSE y \in S : TRUE IN <<x>> \o SetToSeq(S \ {x})

(* Variants of newIdsOf: one that reports every new identifier once, one   *)
(* that also reports the identifiers that disappeared.                     *)
newIdsOfDeduplicated(reg, localIds) == FilterOnce(localIds, prevIdsOf(reg))

newIdsOfBothWays(reg, localIds) ==
    Filter(localIds, prevIdsOf(reg)) \o SetToSeq(prevIdsOf(reg) \ Range(localIds))

newIdsOf(reg, localIds) == Filter(localIds, prevIdsOf(reg))

(* Variant of baseVersionOf that normalises the published version. *)
baseVersionOfNormalised(reg) ==
    IF reg.isNull \/ reg.version = <<>> THEN DEFAULT_BASE
    ELSE LET m == SemverMatch(reg.version)
         IN  IF m.ok THEN Format(parseInt(m.g[1]), parseInt(m.g[2]), parseInt(m.g[3]))
             ELSE reg.version

baseVersionOf(reg) ==
    IF reg.isNull \/ reg.version = <<>> THEN DEFAULT_BASE ELSE reg.version

RECURSIVE BumpTimes(_, _, _)
BumpTimes(ver, p, n) ==
    IF n = 0 THEN ver ELSE BumpTimes(bumpSemver(ver, p), p, n - 1)

(* Variants of nextVersionOf: one bump per new identifier; a bump on every *)
(* build.                                                                  *)
nextVersionOfPerId(newIds, baseVersion, p) == BumpTimes(baseVersion, p, Len(newIds))

nextVersionOfAlways(newIds, baseVersion, p) == bumpSemver(baseVersion, p)

nextVersionOf(newIds, baseVersion, p) ==
    IF Len(newIds) > 0 THEN bumpSemver(baseVersion, p) ELSE baseVersion

calculateNextVersion(reg, localIds, p) ==
    LET newIds == newIdsOf(reg, localIds)
        baseVersion == baseVersionOf(reg)
        nextVersion == nextVersionOf(newIds, baseVersion, p)
    IN  [baseVersion |-> baseVersion, nextVersion |-> nextVersion, newIds |-> newIds]

-----------------------------------------------------------------------------
(* Inputs of the calculateNextVersion specification. *)

Ids == {"a", "b", "c"}

TemplateArrays == {[x \in DOMAIN ids |-> [id |-> ids[x]]] : ids \in Strings(Ids, 0, MaxTemplates)}

LocalLists == Strings(Ids, 0, MaxLocal)

EvalVersions ==
    { <<>>,
      <<"a">>,
      <<"9", ".", "9">>,
      <<"0", ".", "0", ".", "0">>,
      <<"0", ".", "9", ".", "9">>,
      <<"0", "9", ".", "0", ".", "9", ".", "0">>,
      <<"9", ".", "9", ".", "9", "-", "a">>,
      <<"9", ".", "0", ".", "0", "-", "\n">> }

Registries == {null} \cup {RegistryFile(ver, t) : ver \in EvalVersions, t \in TemplateArrays}

BumpIdle == v = Idle /\ part = "undefined" /\ ret = Idle /\ called = FALSE

InitEval ==
    /\ liveRegistry \in Registries
    /\ localTemplateIds \in LocalLists
    /\ bumpPart \in BumpParts \cup {"undefined"}
    /\ result = Idle
    /\ before = Idle
    /\ op = "none"
    /\ round = 0
    /\ BumpIdle
    /\ RunnerIdle

Calculate ==
    /\ op = "none"
    /\ result' = calculateNextVersion(liveRegistry, localTemplateIds, bumpPart)
    /\ op' = "calculated"
    /\ UNCHANGED <<liveRegistry, localTemplateIds, bumpPart, before, round,
                   bumpVars, runnerVars>>

RemoveAt(s, i) == SubSeq(s, 1, i - 1) \o SubSeq(s, i + 1, Len(s))

(* The caller drops from its list an identifier the registry knows, and    *)
(* evaluates again.                                                        *)
RemoveKnown ==
    /\ op # "none"
    /\ \E i \in DOMAIN localTemplateIds :
          /\ localTemplateIds[i] \in prevIdsOf(liveRegistry)
          /\ localTemplateIds' = RemoveAt(localTemplateIds, i)
    /\ before' = result
    /\ result' = calculateNextVersion(liveRegistry, localTemplateIds', bumpPart)
    /\ op' = "removed"
    /\ UNCHANGED <<liveRegistry, bumpPart, round, bumpVars, runnerVars>>

NextEval == Calculate \/ RemoveKnown

SpecEval == InitEval /\ [][NextEval]_vars

-----------------------------------------------------------------------------
(* Repeated rounds: each round evaluates the local list against the        *)
(* current snapshot and takes {version: nextVersion, templates: local      *)
(* identifiers} as the next snapshot.                                      *)

RoundIds == {"a", "b"}

RoundLists == Strings(RoundIds, 0, MaxRoundLocal)

AsTemplates(ids) == [x \in DOMAIN ids |-> [id |-> ids[x]]]

RoundStartVersions ==
    { <<"0", ".", "0", ".", "0">>,
      <<"0", ".", "9", ".", "9">>,
      <<"0", "9", ".", "0", ".", "9", ".", "0">>,
      <<"9", ".", "9", ".", "9", "-", "a">>,
      <<"9", ".", "0", ".", "0", "-", "\n">> }

InitRounds ==
    /\ liveRegistry \in {RegistryFile(ver, AsTemplates(ids)) :
                            ver \in RoundStartVersions, ids \in RoundLists}
    /\ localTemplateIds = Idle
    /\ bumpPart = "undefined"
    /\ result = Idle
    /\ before = Idle
    /\ op = "none"
    /\ round = 0
    /\ BumpIdle
    /\ RunnerIdle

Round ==
    /\ round < MaxRounds
    /\ \E ids \in RoundLists, p \in BumpParts \cup {"undefined"} :
          /\ localTemplateIds' = ids
          /\ bumpPart' = p
          /\ result' = calculateNextVersion(liveRegistry, ids, p)
          /\ liveRegistry' = RegistryFile(result'.nextVersion, AsTemplates(ids))
    /\ before' = liveRegistry
    /\ op' = "round"
    /\ round' = round + 1
    /\ UNCHANGED <<bumpVars, runnerVars>>

NextRounds == Round

SpecRounds == InitRounds /\ [][NextRounds]_vars

-----------------------------------------------------------------------------
(* What the claims call a well-formed version: a MAJOR.MINOR.PATCH triple  *)
(* of digit runs, optionally followed by a suffix that starts with '.' or  *)
(* '-'.  Stated by positions: i and j are the two dots, k the last digit   *)
(* of PATCH.                                                               *)

AllDigits(s, a, b) == a <= b /\ \A x \in a..b : IsDigit(s[x])

(* i is the first dot of s, after a run of digits. *)
FirstDot(s, i) == s[i] = "." /\ AllDigits(s, 1, i - 1)

(* j is the second dot of s, a run of digits after the dot at i. *)
SecondDot(s, i, j) == s[j] = "." /\ AllDigits(s, i + 1, j - 1)

(* A prefix digits.digits.digits of s, its dots at i and j, that ends at k. *)
LeadingTripleAt(s, i, j, k) ==
    /\ FirstDot(s, i) /\ SecondDot(s, i, j) /\ AllDigits(s, j + 1, k)

HasLeadingTriple(s) ==
    \E i \in 2..Len(s) :
        /\ FirstDot(s, i)
        /\ \E j \in (i + 2)..Len(s) :
              /\ SecondDot(s, i, j)
              /\ \E k \in (j + 1)..Len(s) : AllDigits(s, j + 1, k)

EndsTriple(s, k) == k = Len(s) \/ s[k + 1] \in {".", "-"}

WellFormed(s) ==
    \E i \in 2..Len(s) :
        /\ FirstDot(s, i)
        /\ \E j \in (i + 2)..Len(s) :
              /\ SecondDot(s, i, j)
              /\ \E k \in (j + 1)..Len(s) : AllDigits(s, j + 1, k) /\ EndsTriple(s, k)

SplitI(s) == CHOOSE i \in 2..Len(s) : FirstDot(s, i)
SplitJ(s) == CHOOSE j \in (SplitI(s) + 2)..Len(s) : SecondDot(s, SplitI(s), j)
SplitK(s) ==
    CHOOSE k \in (SplitJ(s) + 1)..Len(s) : AllDigits(s, SplitJ(s) + 1, k) /\ EndsTriple(s, k)

MajorOf(s) == parseInt(SubSeq(s, 1, SplitI(s) - 1))
MinorOf(s) == parseInt(SubSeq(s, SplitI(s) + 1, SplitJ(s) - 1))
PatchOf(s) == parseInt(SubSeq(s, SplitJ(s) + 1, SplitK(s)))
SuffixOf(s) == SubSeq(s, SplitK(s) + 1, Len(s))

SingleLine(s) == \A x \in 1..Len(s) : s[x] \notin LineTerminators

Expected(s, p) ==
    CASE p = "major" -> Format(MajorOf(s) + 1, 0, 0)
      [] p = "patch" -> Format(MajorOf(s), MinorOf(s), PatchOf(s) + 1)
      [] p \in {"minor", "undefined"} -> Format(MajorOf(s), MinorOf(s) + 1, 0)

(* C1, as stated: for every well-formed input (any suffix that starts     *)
(* with '.' or '-') and every category, bumpSemver returns the bare       *)
(* triple with the documented arithmetic; no category means minor.        *)
C1_AnySuffix ==
    (called /\ WellFormed(v)) => ret = Expected(v, part)

(* C1, amended: the same for every well-formed input whose suffix holds   *)
(* no line terminator.                                                    *)
C1_BumpArithmetic ==
    (called /\ WellFormed(v) /\ SingleLine(v)) => ret = Expected(v, part)

C1_Witness ==
    /\ called /\ WellFormed(v) /\ SingleLine(v)
    /\ Len(SuffixOf(v)) = MaxSuffix
    /\ part = "undefined"
    /\ PatchOf(v) > 0
    /\ ret = Expected(v, "minor")

(* C2: an input with no leading numeric MAJOR.MINOR.PATCH triple, the     *)
(* empty string included, makes bumpSemver return exactly 1.0.0 for every *)
(* category.                                                              *)
C2_MalformedFallsBack ==
    (called /\ ~HasLeadingTriple(v)) => ret = FALLBACK

C2_Witness ==
    /\ called /\ ~HasLeadingTriple(v)
    /\ Len(v) = MaxLen /\ IsDigit(v[1]) /\ v[2] = "."
    /\ part = "major"
    /\ ret = FALLBACK

-----------------------------------------------------------------------------
(* Claims about calculateNextVersion. *)

Evaluated == op # "none"

LiveIds == IF liveRegistry.isNull THEN <<>>
           ELSE [x \in DOMAIN liveRegistry.templates |-> liveRegistry.templates[x].id]

KnownSet == Range(LiveIds)

IsBareTriple(s) ==
    \E i \in 2..Len(s) :
        \E j \in (i + 2)..Len(s) : LeadingTripleAt(s, i, j, Len(s))

-----------------------------------------------------------------------------
(* The test runner.  Tests run in the order of registration.  SyncTests   *)
(* holds, for each synchronous test, the call its body makes and the      *)
(* values it hands to assertEqual; asserted names the fields of the       *)
(* result that the body compares.                                         *)

assertEqual(actual, expected) == actual = expected

SyncTests ==
    << (* bumpSemver: minor bump from 1.0.0 *)
       [fn |-> "bumpSemver", v |-> <<"1", ".", "0", ".", "0">>, part |-> "minor",
        expected |-> <<"1", ".", "1", ".", "0">>],
       (* bumpSemver: minor bump from 1.1.0 *)
       [fn |-> "bumpSemver", v |-> <<"1", ".", "1", ".", "0">>, part |-> "minor",
        expected |-> <<"1", ".", "2", ".", "0">>],
       (* bumpSemver: patch bump from 1.1.0 *)
       [fn |-> "bumpSemver", v |-> <<"1", ".", "1", ".", "0">>, part |-> "patch",
        expected |-> <<"1", ".", "1", ".", "1">>],
       (* bumpSemver: major bump from 1.1.0 *)
       [fn |-> "bumpSemver", v |-> <<"1", ".", "1", ".", "0">>, part |-> "major",
        expected |-> <<"2", ".", "0", ".", "0">>],
       (* bumpSemver: handles invalid version *)
       [fn |-> "bumpSemver", v |-> <<"i", "n", "v", "a", "l", "i", "d">>, part |-> "minor",
        expected |-> <<"1", ".", "0", ".", "0">>],
       (* bumpSemver: handles empty string *)
       [fn |-> "bumpSemver", v |-> <<>>, part |-> "minor",
        expected |-> <<"1", ".", "0", ".", "0">>],
       (* bumpSemver: handles prerelease version *)
       [fn |-> "bumpSemver", v |-> <<"1", ".", "2", ".", "3", "-", "b", "e", "t", "a", ".", "1">>, part |-> "minor",
        expected |-> <<"1", ".", "3", ".", "0">>],
       (* No live registry (fresh start) -> uses 1.0.0 *)
       [fn |-> "calculateNextVersion",
        liveRegistry |-> null,
        localTemplateIds |-> <<"template-a", "template-b">>, part |-> "minor",
        asserted |-> {"baseVersion", "nextVersion", "newIds"},
        baseVersion |-> <<"1", ".", "0", ".", "0">>, nextVersion |-> <<"1", ".", "1", ".", "0">>,
        newIds |-> <<"template-a", "template-b">>],
       (* No new templates -> keeps same version *)
       [fn |-> "calculateNextVersion",
        liveRegistry |-> RegistryFile(<<"1", ".", "5", ".", "0">>, AsTemplates(<<"homepage", "jellyfin-server">>)),
        localTemplateIds |-> <<"homepage", "jellyfin-server">>, part |-> "minor",
        asserted |-> {"baseVersion", "nextVersion", "newIds"},
        baseVersion |-> <<"1", ".", "5", ".", "0">>, nextVersion |-> <<"1", ".", "5", ".", "0">>,
        newIds |-> <<>>],
       (* One new template -> bumps minor *)
       [fn |-> "calculateNextVersion",
        liveRegistry |-> RegistryFile(<<"1", ".", "1", ".", "0">>, AsTemplates(<<"homepage", "jellyfin-server">>)),
        localTemplateIds |-> <<"homepage", "jellyfin-server", "new-template">>, part |-> "minor",
        asserted |-> {"baseVersion", "nextVersion", "newIds"},
        baseVersion |-> <<"1", ".", "1", ".", "0">>, nextVersion |-> <<"1", ".", "2", ".", "0">>,
        newIds |-> <<"new-template">>],
       (* Multiple new templates -> bumps once *)
       [fn |-> "calculateNextVersion",
        liveRegistry |-> RegistryFile(<<"2", ".", "0", ".", "0">>, AsTemplates(<<"homepage">>)),
        localTemplateIds |-> <<"homepage", "new-a", "new-b", "new-c">>, part |-> "minor",
        asserted |-> {"baseVersion", "nextVersion", "newIds"},
        baseVersion |-> <<"2", ".", "0", ".", "0">>, nextVersion |-> <<"2", ".", "1", ".", "0">>,
        newIds |-> <<"new-a", "new-b", "new-c">>],
       (* New template with patch bump *)
       [fn |-> "calculateNextVersion",
        liveRegistry |-> RegistryFile(<<"1", ".", "1", ".", "0">>, AsTemplates(<<"homepage">>)),
        localTemplateIds |-> <<"homepage", "new-template">>, part |-> "patch",
        asserted |-> {"baseVersion", "nextVersion"},
        baseVersion |-> <<"1", ".", "1", ".", "0">>, nextVersion |-> <<"1", ".", "1", ".", "1">>,
        newIds |-> <<>>],
       (* Template removed (not in local) -> still keeps version *)
       [fn |-> "calculateNextVersion",
        liveRegistry |-> RegistryFile(<<"1", ".", "3", ".", "0">>, AsTemplates(<<"homepage", "old-template">>)),
        localTemplateIds |-> <<"homepage">>, part |-> "minor",
        asserted |-> {"baseVersion", "nextVersion", "newIds"},
        baseVersion |-> <<"1", ".", "3", ".", "0">>, nextVersion |-> <<"1", ".", "3", ".", "0">>,
        newIds |-> <<>>],
       (* Empty live registry templates array -> all local are new *)
       [fn |-> "calculateNextVersion",
        liveRegistry |-> RegistryFile(<<"1", ".", "0", ".", "0">>, AsTemplates(<<>>)),
        localTemplateIds |-> <<"template-a">>, part |-> "minor",
        asserted |-> {"nextVersion", "newIds"},
        baseVersion |-> <<>>, nextVersion |-> <<"1", ".", "1", ".", "0">>,
        newIds |-> <<"template-a">>] >>

NumTests == Len(SyncTests) + 1

AsyncTest == NumTests

(* The body of a synchronous test: it returns, or throws at a failing      *)
(* assertEqual.                                                            *)
SyncBody(t) ==
    IF t.fn = "bumpSemver"
    THEN assertEqual(bumpSemver(t.v, t.part), t.expected)
    ELSE LET r == calculateNextVersion(t.liveRegistry, t.localTemplateIds, t.part)
         IN  /\ "baseVersion" \in t.asserted => assertEqual(r.baseVersion, t.baseVersion)
             /\ "nextVersion" \in t.asserted => assertEqual(r.nextVersion, t.nextVersion)
             /\ "newIds" \in t.asserted => assertEqual(r.newIds, t.newIds)

(* What calling the body fn() does: a synchronous body returns or throws;  *)
(* the async body runs up to its first await (the fetch) and returns a     *)
(* pending promise.                                                        *)
CallBody(i) ==
    IF i = AsyncTest THEN "awaitFetch"
    ELSE IF SyncBody(SyncTests[i]) THEN "returned" ELSE "threw"

Threw(outcome) == outcome = "threw"

InitRunner ==
    /\ passed = 0
    /\ failed = 0
    /\ next = 1
    /\ counted = [i \in 1..NumTests |-> "none"]
    /\ body = [i \in 1..NumTests |-> "notCalled"]
    /\ summary = Idle
    /\ exitCode = -1
    /\ EvalIdle
    /\ BumpIdle

(* test(name, fn) *)
RunTest ==
    /\ next <= NumTests
    /\ LET outcome == CallBody(next)
       IN  /\ body' = [body EXCEPT ![next] = outcome]
           /\ IF Threw(outcome)
              THEN /\ failed' = failed + 1
                   /\ counted' = [counted EXCEPT ![next] = "failed"]
                   /\ UNCHANGED passed
              ELSE /\ passed' = passed + 1
                   /\ counted' = [counted EXCEPT ![next] = "passed"]
                   /\ UNCHANGED failed
    /\ next' = next + 1
    /\ UNCHANGED <<summary, exitCode, evalVars, bumpVars>>

(* The summary line, and process.exit(1) when a test failed. *)
Summary ==
    /\ next > NumTests
    /\ summary = Idle
    /\ summary' = [passed |-> passed, failed |-> failed]
    /\ exitCode' = IF failed > 0 THEN 1 ELSE exitCode
    /\ UNCHANGED <<passed, failed, next, counted, body, evalVars, bumpVars>>

(* The continuations of the async body run after the script has run to     *)
(* its end, when the process has not exited.                               *)
Resumable(at) == summary # Idle /\ exitCode = -1 /\ body[AsyncTest] = at

Settle(to) ==
    /\ body' = [body EXCEPT ![AsyncTest] = to]
    /\ UNCHANGED <<passed, failed, next, counted, summary, exitCode, bumpVars>>

(* await fetch(LIVE_URL): the request fails, or answers with res.ok false, *)
(* or with res.ok true.                                                    *)
FetchSettles ==
    /\ Resumable("awaitFetch")
    /\ \/ Settle("rejected")
       \/ Settle("awaitJson")
    /\ UNCHANGED evalVars

(* await res.json(): not JSON, or the live registry. *)
JsonSettles ==
    /\ Resumable("awaitJson")
    /\ \/ Settle("rejected") /\ UNCHANGED evalVars
       \/ /\ Settle("awaitReaddir")
          /\ liveRegistry' \in Registries \ {null}
          /\ UNCHANGED <<localTemplateIds, bumpPart, result, before, op, round>>

(* await fs.readdir(templatesDir): no such directory, or the entries; then *)
(* calculateNextVersion and the format check of its nextVersion.           *)
ReaddirSettles ==
    /\ Resumable("awaitReaddir")
    /\ \/ Settle("rejected") /\ UNCHANGED evalVars
       \/ \E localIds \in LocalLists :
             /\ localTemplateIds' = localIds
             /\ bumpPart' = "minor"
             /\ result' = calculateNextVersion(liveRegistry, localIds, "minor")
             /\ Settle(IF IsBareTriple(result'.nextVersion) THEN "fulfilled" ELSE "rejected")
             /\ op' = "calculated"
             /\ UNCHANGED <<liveRegistry, before, round>>

(* The process ends when nothing is left to run: with status 1 on the      *)
(* unhandled rejection of the async body, with status 0 otherwise.         *)
Exit ==
    /\ summary # Idle /\ exitCode = -1
    /\ body[AsyncTest] \in {"fulfilled", "rejected"}
    /\ exitCode' = IF body[AsyncTest] = "rejected" THEN 1 ELSE 0
    /\ UNCHANGED <<passed, failed, next, counted, body, summary, evalVars, bumpVars>>

NextRunner == RunTest \/ Summary \/ FetchSettles \/ JsonSettles \/ ReaddirSettles \/ Exit

SpecRunner == InitRunner /\ [][NextRunner]_vars

-----------------------------------------------------------------------------
(* C3, as stated: baseVersion is 1.0.0 for an absent registry and is       *)
(* previous.version verbatim for every version string otherwise.           *)
C3_VerbatimForEveryString ==
    Evaluated =>
        result.baseVersion =
            IF liveRegistry.isNull THEN DEFAULT_BASE ELSE liveRegistry.version

(* C3, amended: baseVersion is 1.0.0 for an absent registry and for a      *)
(* registry whose version is the empty string; for every other version     *)
(* string it is previous.version verbatim, not re-normalised.              *)
C3_BaseVersion ==
    Evaluated =>
        result.baseVersion =
            IF liveRegistry.isNull \/ Len(liveRegistry.version) = 0
            THEN <<"1", ".", "0", ".", "0">>
            ELSE liveRegistry.version

C3_Witness ==
    /\ Evaluated /\ ~liveRegistry.isNull
    /\ WellFormed(liveRegistry.version) /\ Len(SuffixOf(liveRegistry.version)) > 0
    /\ result.baseVersion = liveRegistry.version

(* C4, as stated: with the local list equal to the snapshot's own          *)
(* identifiers, nextVersion is snapshot.version and newIds is empty, for   *)
(* every snapshot and category.                                            *)
C4_NoOpEveryVersion ==
    (op = "calculated" /\ ~liveRegistry.isNull /\ localTemplateIds = LiveIds) =>
        /\ result.newIds = <<>>
        /\ result.nextVersion = liveRegistry.version

(* C4, amended: with the local list equal to the snapshot's own            *)
(* identifiers, newIds is empty and nextVersion is snapshot.version, or    *)
(* 1.0.0 when snapshot.version is the empty string.                        *)
C4_NoOp ==
    (op = "calculated" /\ ~liveRegistry.isNull /\ localTemplateIds = LiveIds) =>
        /\ result.newIds = <<>>
        /\ result.nextVersion =
              IF Len(liveRegistry.version) = 0 THEN <<"1", ".", "0", ".", "0">>
              ELSE liveRegistry.version

C4_Witness ==
    /\ op = "calculated" /\ ~liveRegistry.isNull /\ localTemplateIds = LiveIds
    /\ Len(LiveIds) = MaxTemplates
    /\ WellFormed(liveRegistry.version)
    /\ bumpPart = "major"
    /\ result.nextVersion = liveRegistry.version

NewPositions == {x \in DOMAIN localTemplateIds : localTemplateIds[x] \notin KnownSet}

(* C5: when at least one local identifier is not in the registry's         *)
(* template set, nextVersion is bumpSemver(baseVersion, category), one     *)
(* bump, however many identifiers are new.                                 *)
C5_SingleBump ==
    (Evaluated /\ NewPositions # {}) =>
        result.nextVersion = bumpSemver(result.baseVersion, bumpPart)

C5_Witness ==
    /\ Evaluated /\ Cardinality(NewPositions) >= 3
    /\ WellFormed(result.baseVersion)
    /\ bumpPart = "patch"
    /\ result.nextVersion = Expected(result.baseVersion, "patch")

(* C6: dropping from the local list identifiers the snapshot knows leaves  *)
(* nextVersion and newIds unchanged; identifiers of the snapshot that are  *)
(* missing locally never appear in newIds and never cause a bump.          *)
C6_RemovalInvariance ==
    /\ op = "removed" =>
          /\ result.nextVersion = before.nextVersion
          /\ result.newIds = before.newIds
    /\ Evaluated =>
          /\ \A id \in KnownSet \ Range(localTemplateIds) : id \notin Range(result.newIds)
          /\ Range(localTemplateIds) \subseteq KnownSet =>
                result.nextVersion = result.baseVersion

C6_Witness ==
    /\ op = "removed"
    /\ KnownSet \ Range(localTemplateIds) # {}
    /\ result.newIds # <<>>
    /\ result.nextVersion = before.nextVersion
    /\ result.nextVersion # result.baseVersion

Count(s, x) == Cardinality({i \in DOMAIN s : s[i] = x})

(* The positions of s that hold an identifier outside K, in order. *)
RECURSIVE KeptPositions(_, _, _)
KeptPositions(s, K, i) ==
    IF i > Len(s) THEN <<>>
    ELSE (IF s[i] \notin K THEN <<i>> ELSE <<>>) \o KeptPositions(s, K, i + 1)

(* C7: newIds is the local list restricted to the identifiers outside the  *)
(* registry's template set (the empty set for an absent registry or one    *)
(* without templates), in the order of the local list, duplicates kept.    *)
C7_NewIdsIsOrderedFilter ==
    Evaluated =>
        LET kept == KeptPositions(localTemplateIds, KnownSet, 1)
        IN  /\ Len(result.newIds) = Len(kept)
            /\ \A x \in DOMAIN kept : result.newIds[x] = localTemplateIds[kept[x]]
            /\ \A id \in Ids :
                  Count(result.newIds, id) =
                      IF id \in KnownSet THEN 0 ELSE Count(localTemplateIds, id)

C7_Witness ==
    /\ Evaluated
    /\ KnownSet # {}
    /\ \E id \in Ids : Count(result.newIds, id) >= 2
    /\ Len(result.newIds) < Len(localTemplateIds)

-----------------------------------------------------------------------------
(* Claims about repeated rounds. *)

TripleOf(s) == <<MajorOf(s), MinorOf(s), PatchOf(s)>>

LexLess(x, y) ==
    \/ x[1] < y[1]
    \/ x[1] = y[1] /\ x[2] < y[2]
    \/ x[1] = y[1] /\ x[2] = y[2] /\ x[3] < y[3]

RoundFacts ==
    LET old == TripleOf(before.version)
        new == TripleOf(liveRegistry.version)
    IN  /\ old = new \/ LexLess(old, new)
        /\ LexLess(old, new) <=> result.newIds # <<>>
        /\ localTemplateIds = [x \in DOMAIN before.templates |-> before.templates[x].id]
              => liveRegistry.version = before.version

(* C10, as stated: from any well-formed starting version (any suffix that  *)
(* starts with '.' or '-'), in every round the triple does not decrease,   *)
(* increases strictly exactly when newIds is non-empty, and a round        *)
(* repeated with the same local list does not bump.                        *)
C10_MonotoneAnySuffix == round > 0 => RoundFacts

(* C10, amended: the same from every well-formed starting version whose    *)
(* suffix holds no line terminator.                                        *)
C10_Monotone == (round > 0 /\ SingleLine(before.version)) => RoundFacts

C10_Witness ==
    /\ round = MaxRounds
    /\ SingleLine(before.version)
    /\ IsBareTriple(before.version)
    /\ before.version \notin RoundStartVersions
    /\ result.newIds # <<>>
    /\ bumpPart = "major"
    /\ MinorOf(before.version) > 0
    /\ LexLess(TripleOf(before.version), TripleOf(liveRegistry.version))

-----------------------------------------------------------------------------
(* Claims about the test runner. *)

Finished(i) == body[i] \in {"returned", "threw", "fulfilled", "rejected"}

Failed(i) == body[i] \in {"threw", "rejected"}

(* C9: a test is counted in passed only after its body has run to          *)
(* completion without an error, and in failed otherwise, the async test    *)
(* included; the summary and the exit status (1 when a body failed) come   *)
(* only after every registered body has finished.                          *)
C9_CountedAfterCompletion ==
    /\ \A i \in 1..NumTests :
          /\ counted[i] = "passed" => Finished(i) /\ ~Failed(i)
          /\ Failed(i) => counted[i] = "failed"
    /\ summary # Idle => \A i \in 1..NumTests : Finished(i)
    /\ exitCode # -1 =>
          /\ \A i \in 1..NumTests : Finished(i)
          /\ exitCode = 1 <=> \E i \in 1..NumTests : Failed(i)

====
